---- MODULE Spec2Model ----
(***************************************************************************)
(* Public character-card library of SillyTavernchat: the import drivers,   *)
(* the avatar step, the PNG metadata codec, the public store and its       *)
(* listing, as implemented in the public-characters endpoint.              *)
(*                                                                         *)
(* Strings are sequences of UTF-16 code units (naturals).  A JSON text is  *)
(* a sequence of bytes, a PNG file is a record of its signature flag, its  *)
(* chunk sequence and its pixel data.                                      *)
(***************************************************************************)
EXTENDS Integers, Sequences, FiniteSets, TLC

VARIABLES
    san,        \* the file-name sanitization under test: input, results, position
    codec,      \* the codec round trip under test: image, payload, results, position
    now,        \* the wall clock read by humanizedISO8601DateTime()
    store,      \* PUBLIC_CHARACTERS_DIR: file name (without ".png") -> PNG file
    jobs,       \* the upload requests: input, position, temp file, response
    listing,    \* the response POST /all has just sent
    reply,      \* the response POST /get or POST /delete has just sent
    avatar,     \* the avatar step under test: image file, crop, result, position
    route,      \* the file route under test: the name sent, the path touched, position
    invites,    \* invitation codes: the stored invitation and the calls in flight
    tracker,    \* chat tracking: one request, its response, the triggers fired, the records made
    forum       \* the forum: article files, comment files, the response just sent

vars == <<san, codec, now, store, jobs, listing, reply, avatar, route, invites, tracker, forum>>

(***************************************************************************)
(* Bounds of the model.                                                    *)
(***************************************************************************)
MaxLen == 4         \* longest name given to the sanitization

(***************************************************************************)
(* Small helpers on sequences.                                             *)
(***************************************************************************)
RECURSIVE SelectNot(_, _)
SelectNot(s, bad) ==
    IF s = <<>> THEN <<>>
    ELSE IF Head(s) \in bad THEN SelectNot(Tail(s), bad)
         ELSE <<Head(s)>> \o SelectNot(Tail(s), bad)

SeqsUpTo(S, n) == UNION {[1..k -> S] : k \in 0..n}

(***************************************************************************)
(* sanitize-filename, as getPngName and the drivers call it (no            *)
(* replacement option, so every match is removed).                         *)
(***************************************************************************)
\* /[\/\?<>\\:\*\|"]/g
illegalRe == {47, 63, 60, 62, 92, 58, 42, 124, 34}

\* /[\x00-\x1f\x80-\x9f]/g
controlRe == (0..31) \cup (128..159)

ToLower(c) == IF c \in 65..90 THEN c + 32 ELSE c

LowerCase(s) == [i \in 1..Len(s) |-> ToLower(s[i])]

\* /^\.+$/
reservedRe(s) == Len(s) > 0 /\ \A i \in 1..Len(s) : s[i] = 46

\* con|prn|aux|nul|com[0-9]|lpt[0-9]
WindowsStems ==
    { <<99, 111, 110>>, <<112, 114, 110>>, <<97, 117, 120>>, <<110, 117, 108>> }
    \cup { <<99, 111, 109, d>> : d \in 48..57 }
    \cup { <<108, 112, 116, d>> : d \in 48..57 }

\* /^(con|prn|aux|nul|com[0-9]|lpt[0-9])(\..*)?$/i
windowsReservedRe(s) ==
    \E stem \in WindowsStems :
        /\ Len(s) >= Len(stem)
        /\ SubSeq(LowerCase(s), 1, Len(stem)) = stem
        /\ (Len(s) = Len(stem) \/ s[Len(stem) + 1] = 46)

\* /[\. ]+$/ removed
RECURSIVE windowsTrailingRe(_)
windowsTrailingRe(s) ==
    IF s # <<>> /\ s[Len(s)] \in {46, 32}
    THEN windowsTrailingRe(SubSeq(s, 1, Len(s) - 1))
    ELSE s

Utf8Len(c) == IF c < 128 THEN 1 ELSE IF c < 2048 THEN 2 ELSE 3

\* truncate-utf8-bytes: the longest prefix of whole characters within n bytes
RECURSIVE truncate(_, _)
truncate(s, n) ==
    IF s = <<>> \/ Utf8Len(Head(s)) > n THEN <<>>
    ELSE <<Head(s)>> \o truncate(Tail(s), n - Utf8Len(Head(s)))

MaxFileNameBytes == 255

sanitize(input) ==
    LET s1 == SelectNot(input, illegalRe)
        s2 == SelectNot(s1, controlRe)
        s3 == IF reservedRe(s2) THEN <<>> ELSE s2
        s4 == IF windowsReservedRe(s3) THEN <<>> ELSE s3
        s5 == windowsTrailingRe(s4)
    IN  truncate(s5, MaxFileNameBytes)

\* [a-zA-Z0-9一-鿿]
KeptChars == (97..122) \cup (65..90) \cup (48..57) \cup (19968..40959)

getPngName(name) ==
    LET sanitizedName == sanitize(name)
    IN  [i \in 1..Len(sanitizedName) |->
            IF sanitizedName[i] \in KeptChars THEN sanitizedName[i] ELSE 95]

(***************************************************************************)
(* Base64, as Buffer.from(data, 'utf8').toString('base64') and             *)
(* Buffer.from(text, 'base64') compute it.  A sextet is 0..63, the padding *)
(* character '=' is 64.                                                    *)
(***************************************************************************)
RECURSIVE Base64Encode(_)
Base64Encode(b) ==
    IF Len(b) = 0 THEN <<>>
    ELSE IF Len(b) = 1
         THEN << b[1] \div 4, (b[1] % 4) * 16, 64, 64 >>
    ELSE IF Len(b) = 2
         THEN << b[1] \div 4, (b[1] % 4) * 16 + b[2] \div 16, (b[2] % 16) * 4, 64 >>
    ELSE << b[1] \div 4, (b[1] % 4) * 16 + b[2] \div 16,
            (b[2] % 16) * 4 + b[3] \div 64, b[3] % 64 >>
         \o Base64Encode(SubSeq(b, 4, Len(b)))

RECURSIVE Base64Decode(_)
Base64Decode(t) ==
    IF Len(t) < 4 THEN <<>>
    ELSE IF t[3] = 64
         THEN << t[1] * 4 + t[2] \div 16 >>
    ELSE IF t[4] = 64
         THEN << t[1] * 4 + t[2] \div 16, (t[2] % 16) * 16 + t[3] \div 4 >>
    ELSE << t[1] * 4 + t[2] \div 16, (t[2] % 16) * 16 + t[3] \div 4,
            (t[3] % 4) * 64 + t[4] >>
         \o Base64Decode(SubSeq(t, 5, Len(t)))

(***************************************************************************)
(* PNG files.  sig: the first 8 bytes are the PNG signature.  ok: the      *)
(* chunk stream can be extracted (lengths, CRCs, a final IEND).  pix: the  *)
(* picture, with ok telling whether the image library can decode it and    *)
(* enc whether it is the library's own re-encoding.                        *)
(***************************************************************************)
chara == <<99, 104, 97, 114, 97>>
ccv3 == <<99, 99, 118, 51>>

PlainChunk(n) == [name |-> n, keyword |-> <<>>, text |-> <<>>]
TextChunk(k, t) == [name |-> "tEXt", keyword |-> k, text |-> t]

IsCardChunk(c) == c.name = "tEXt" /\ LowerCase(c.keyword) \in {chara, ccv3}

Pix(id, ok, enc) == [id |-> id, ok |-> ok, enc |-> enc]

PngFile(chunks, pix) == [sig |-> TRUE, ok |-> TRUE, chunks |-> chunks, pix |-> pix]

BareChunks == << PlainChunk("IHDR"), PlainChunk("IDAT"), PlainChunk("IEND") >>

\* A file that is no PNG at all (text, or any bytes without the signature).
NotPng == [sig |-> FALSE, ok |-> FALSE, chunks |-> <<>>, pix |-> Pix("none", FALSE, FALSE)]

\* The file at DEFAULT_AVATAR_PATH.
DefaultAvatar == PngFile(BareChunks, Pix("default", TRUE, FALSE))

RECURSIVE FirstCard(_)
FirstCard(chunks) ==
    IF chunks = <<>> THEN <<>>
    ELSE IF IsCardChunk(Head(chunks)) THEN <<Head(chunks)>>
    ELSE FirstCard(Tail(chunks))

RECURSIVE StripCards(_)
StripCards(chunks) ==
    IF chunks = <<>> THEN <<>>
    ELSE IF IsCardChunk(Head(chunks)) THEN StripCards(Tail(chunks))
    ELSE <<Head(chunks)>> \o StripCards(Tail(chunks))

\* character-card-parser read(): the decoded value of the first card segment.
read(image) ==
    IF ~image.sig \/ ~image.ok
    THEN [ok |-> FALSE, err |-> "MalformedContainer", data |-> <<>>]
    ELSE IF FirstCard(image.chunks) = <<>>
    THEN [ok |-> FALSE, err |-> "NotACharacterCard", data |-> <<>>]
    ELSE [ok |-> TRUE, err |-> "", data |-> Base64Decode(FirstCard(image.chunks)[1].text)]

\* character-card-parser write(): strip the card segments, insert one before
\* the terminal chunk.
write(image, data) ==
    LET kept == StripCards(image.chunks)
        n == Len(kept)
    IN  IF ~image.sig \/ ~image.ok \/ n = 0
        THEN [ok |-> FALSE, image |-> NotPng]
        ELSE [ok |-> TRUE,
              image |-> [image EXCEPT !.chunks =
                            SubSeq(kept, 1, n - 1)
                            \o << TextChunk(chara, Base64Encode(data)) >>
                            \o << kept[n] >>]]

(***************************************************************************)
(* JSON.  An object is a function from its keys to string values; the      *)
(* nested data.name is the key "data_name".  A JSON (or YAML) text is a    *)
(* byte sequence: for every key of the object, in FieldOrder, the key's    *)
(* byte, the length of the value and the value.  "null" is its own text.   *)
(***************************************************************************)
FieldOrder ==
    << "name", "spec", "data_name", "create_date", "chat", "uploader",
       "uploader_handle", "user_notes", "user_notes_private", "user_notes_public",
       "user_notes_private_visible", "user_notes_public_visible" >>

Fields == {FieldOrder[i] : i \in 1..Len(FieldOrder)}

KeyByte(f) == CHOOSE i \in 1..Len(FieldOrder) : FieldOrder[i] = f

EmptyObject == [f \in {} |-> <<>>]

\* the value undefined, which is no string
Undefined == << 0 - 1 >>

Get(o, f) == IF f \in DOMAIN o THEN o[f] ELSE Undefined

Set(o, f, v) == [g \in DOMAIN o \cup {f} |-> IF g = f THEN v ELSE o[g]]

Delete(o, f) == [g \in DOMAIN o \ {f} |-> o[g]]

Falsy(v) == v = Undefined \/ v = <<>>

\* a || b
OrElse(a, b) == IF Falsy(a) THEN b ELSE a

NullText == <<110, 117, 108, 108>>

RECURSIVE StringifyFrom(_, _)
StringifyFrom(o, i) ==
    IF i > Len(FieldOrder) THEN <<>>
    ELSE IF FieldOrder[i] \in DOMAIN o /\ o[FieldOrder[i]] # Undefined
         THEN << i, Len(o[FieldOrder[i]]) >> \o o[FieldOrder[i]] \o StringifyFrom(o, i + 1)
         ELSE StringifyFrom(o, i + 1)

\* JSON.stringify(object): a key whose value is undefined is left out
JSONstringify(o) == StringifyFrom(o, 1)

\* JSON.parse(text), yaml.parse(text): a later duplicate key wins
RECURSIVE ParseObject(_)
ParseObject(t) ==
    IF t = <<>> THEN [ok |-> TRUE, null |-> FALSE, obj |-> EmptyObject]
    ELSE IF Len(t) < 2 \/ t[1] \notin 1..Len(FieldOrder) \/ t[2] < 0 \/ Len(t) < 2 + t[2]
         THEN [ok |-> FALSE, null |-> FALSE, obj |-> EmptyObject]
    ELSE LET rest == ParseObject(SubSeq(t, 3 + t[2], Len(t)))
         IN  IF ~rest.ok THEN rest
             ELSE [rest EXCEPT !.obj =
                      [g \in DOMAIN rest.obj \cup {FieldOrder[t[1]]} |->
                          IF g \in DOMAIN rest.obj THEN rest.obj[g]
                          ELSE SubSeq(t, 3, 2 + t[2])]]

JSONparse(t) ==
    IF t = NullText THEN [ok |-> TRUE, null |-> TRUE, obj |-> EmptyObject]
    ELSE ParseObject(t)

(***************************************************************************)
(* humanizedISO8601DateTime(): the clock as a string.                      *)
(***************************************************************************)
humanizedISO8601DateTime(t) == << 48 + t >>

PrivateFields ==
    { "user_notes", "user_notes_private", "user_notes_public",
      "user_notes_private_visible", "user_notes_public_visible" }

\* a scrub that forgets the visibility flags
unsetNotesOnly(card) ==
    [g \in DOMAIN card \ {"user_notes", "user_notes_private", "user_notes_public"} |->
        card[g]]

unsetPrivateFields(card) == [g \in DOMAIN card \ PrivateFields |-> card[g]]

readFromV2(card) == card

\* trailing '/' characters of a path do not count (path.parse)
RECURSIVE StripTrailingSlash(_)
StripTrailingSlash(p) ==
    IF Len(p) > 1 /\ p[Len(p)] = 47
    THEN StripTrailingSlash(SubSeq(p, 1, Len(p) - 1))
    ELSE p

\* path.parse(p).name on POSIX: the part after the last '/', without its
\* extension (a leading dot starts no extension)
RECURSIVE LastIndexOf(_, _)
LastIndexOf(s, c) ==
    IF s = <<>> THEN 0
    ELSE IF s[Len(s)] = c THEN Len(s)
    ELSE LastIndexOf(SubSeq(s, 1, Len(s) - 1), c)

PathName(p) ==
    LET q == StripTrailingSlash(p)
        base == SubSeq(q, LastIndexOf(q, 47) + 1, Len(q))
        dot == LastIndexOf(base, 46)
    IN  IF dot <= 1 \/ base = <<46, 46>> THEN base ELSE SubSeq(base, 1, dot - 1)

\* a request whose preserved_name is not looked at
noPreservedName(preserved_name) == Undefined

\* request.body.preserved_name ? path.parse(...).name : undefined
getPreservedName(preserved_name) ==
    IF Falsy(preserved_name) THEN Undefined ELSE PathName(preserved_name)

(***************************************************************************)
(* Requests.  The callers, the uploaded files and the request fields that  *)
(* POST /upload is given.                                                  *)
(***************************************************************************)
Alice == [handle |-> <<97>>, name |-> <<65, 108>>, admin |-> FALSE]
Bob == [handle |-> <<98>>, name |-> <<66, 111>>, admin |-> FALSE]
Users == {Alice, Bob}

Forge(o) == Set(Set(Set(o, "uploader", <<77>>), "uploader_handle", <<109>>),
                "create_date", <<57>>)

Note(o) == [f \in DOMAIN o \cup PrivateFields |->
               IF f \in PrivateFields THEN <<115>> ELSE o[f]]

V1(name) == Set(EmptyObject, "name", name)
V2(o) == Set(o, "spec", <<118, 50>>)

PlainObjects ==
    { V1(<<65>>), V1(<<47>>), V1(<<>>),
      V2(Set(V1(<<65>>), "data_name", <<66>>)),
      V2(Set(EmptyObject, "data_name", <<66>>)),
      V2(EmptyObject), EmptyObject }

\* the same records with the uploader, the date and the private notes set
DecoratedObjects ==
    { Note(Forge(V1(<<65>>))), Note(Forge(V2(Set(V1(<<65>>), "data_name", <<66>>)))) }

\* a record whose spec names no card generation, with private notes, no name
OddObjects == { Note(Set(EmptyObject, "spec", <<120>>)) }

SrcObjects == PlainObjects \cup DecoratedObjects \cup OddObjects

\* the texts given to the YAML driver, which reads the name only
YamlTexts ==
    {JSONstringify(o) : o \in {V1(<<65>>), Note(Forge(V1(<<65>>))), V1(<<47>>), EmptyObject}}

BadText == <<123>>

Texts == {JSONstringify(o) : o \in SrcObjects} \cup {NullText, BadText}

\* an uploaded file: its bytes read as text, its bytes read as a PNG, and
\* whether the path it was stored under ends in ".png"
TextUpload(t) == [text |-> t, png |-> NotPng, dotPng |-> FALSE]
PngUpload(f, dotPng) == [text |-> BadText, png |-> f, dotPng |-> dotPng]

CardPng(keyword, t, pixOk) ==
    PngFile(<< PlainChunk("IHDR"), TextChunk(keyword, Base64Encode(t)),
               PlainChunk("IDAT"), PlainChunk("IEND") >>,
            Pix("upload", pixOk, FALSE))

PngFiles ==
    { NotPng,
      [sig |-> TRUE, ok |-> FALSE, chunks |-> <<>>, pix |-> Pix("upload", FALSE, FALSE)],
      PngFile(BareChunks, Pix("upload", TRUE, FALSE)),
      PngFile(<< PlainChunk("IHDR"), TextChunk(<<111, 116, 104, 101, 114>>, <<>>),
                 PlainChunk("IDAT"), PlainChunk("IEND") >>, Pix("upload", TRUE, FALSE)) }
    \cup { CardPng(chara, t, TRUE) : t \in Texts \ {JSONstringify(V1(<<>>)),
                                                     JSONstringify(V2(EmptyObject))} }
    \cup { CardPng(k, JSONstringify(V1(<<65>>)), FALSE) : k \in {ccv3, <<67, 104, 97, 114, 97>>} }

Uploads ==
    { TextUpload(t) : t \in Texts }
    \cup { PngUpload(f, FALSE) : f \in PngFiles }
    \cup { PngUpload(CardPng(chara, JSONstringify(V1(<<65>>)), FALSE), TRUE) }

\* preserved_name of the request body: absent, or "P.png"
PreservedNames == { <<>>, <<80, 46, 112, 110, 103>> }

Inputs ==
    { [file_type |-> "json", upload |-> TextUpload(t), user |-> usr,
       preserved_name |-> pn] :
        t \in Texts, usr \in Users, pn \in PreservedNames }
    \cup
    { [file_type |-> "yaml", upload |-> TextUpload(t), user |-> usr,
       preserved_name |-> pn] :
        t \in YamlTexts \cup {NullText, BadText}, usr \in Users, pn \in PreservedNames }
    \cup
    { [file_type |-> "png", upload |-> u, user |-> usr, preserved_name |-> pn] :
        u \in Uploads \ {TextUpload(t) : t \in Texts},
        usr \in Users, pn \in PreservedNames }
    \cup
    { [file_type |-> ft, upload |-> TextUpload(JSONstringify(V1(<<65>>))),
       user |-> usr, preserved_name |-> <<>>] :
        ft \in {"yml", "txt"}, usr \in Users }

(***************************************************************************)
(* An upload job: the request, the position of its handler, the temp file  *)
(* the upload middleware stored, and the response.                         *)
(***************************************************************************)
Jobs == {1, 2}

NoPending == [inputFile |-> "", data |-> <<>>, outputFile |-> <<>>]

IdleJob ==
    [pc |-> "idle",
     req |-> [file_type |-> "", upload |-> TextUpload(<<>>), user |-> Alice,
              preserved_name |-> <<>>],
     time |-> 0,            \* the clock when the request arrived
     tmp |-> FALSE,         \* the temp file exists
     unlinks |-> 0,         \* unlinkSync calls that removed the temp file
     enoent |-> 0,          \* unlinkSync calls that found no temp file
     status |-> 0, error |-> "", file_name |-> <<>>, responses |-> 0,
     pending |-> NoPending, \* the arguments of writeCharacterData
     tried |-> <<>>,        \* the image sources getInputImage went through
     noAvatar |-> FALSE,    \* the default avatar was read and was missing
     diskFailed |-> FALSE,  \* writeFileAtomicSync threw
     wrote |-> FALSE,       \* writeFileAtomicSync stored this job's artifact
     replaced |-> ""]       \* the driver that had written the file it replaced

\* a request that was answered and is over
Gone == [IdleJob EXCEPT !.pc = "gone"]

NewJob(inp, t) == [IdleJob EXCEPT !.req = inp, !.time = t, !.tmp = TRUE]

\* fs.unlinkSync(uploadPath)
Unlink(job) ==
    IF job.tmp THEN [job EXCEPT !.tmp = FALSE, !.unlinks = @ + 1]
    ELSE [job EXCEPT !.enoent = @ + 1]

\* the cleanup without its existsSync test
CleanupAlways(job) == Unlink(job)

\* if (fs.existsSync(uploadPath)) fs.unlinkSync(uploadPath)
CleanupIfExists(job) == IF job.tmp THEN Unlink(job) ELSE job

\* a handler that answers again after it has answered
RespondAgain(job, status, error, file_name) ==
    [job EXCEPT !.pc = "done", !.status = status, !.error = error,
                !.file_name = file_name, !.responses = @ + 2]

Respond(job, status, error, file_name) ==
    [job EXCEPT !.pc = "done", !.status = status, !.error = error,
                !.file_name = file_name, !.responses = @ + 1]

\* the catch block of POST /upload
UploadCatch(job, message) == Respond(CleanupIfExists(job), 400, message, <<>>)

\* what POST /upload does with the file name the driver returned
UploadReturn(job, fileName) ==
    IF Falsy(fileName) THEN Respond(job, 400, "Failed to import character", <<>>)
    ELSE Respond(job, 200, "", fileName)

\* the driver goes on to await writeCharacterData(inputFile, data, outputFile)
CallWrite(job, inputFile, data, outputFile) ==
    [job EXCEPT !.pc = "image",
                !.pending = [inputFile |-> inputFile, data |-> data,
                             outputFile |-> outputFile]]

\* a stamping that fills in only what the source left out
StampMissing(o, job) ==
    [f \in DOMAIN o \cup {"create_date", "uploader", "uploader_handle"} |->
        IF f \in DOMAIN o THEN o[f]
        ELSE CASE f = "create_date" -> humanizedISO8601DateTime(job.time)
               [] f = "uploader" -> job.req.user.name
               [] f = "uploader_handle" -> job.req.user.handle]

Stamp(o, job) ==
    Set(Set(Set(o, "create_date", humanizedISO8601DateTime(job.time)),
            "uploader", job.req.user.name),
        "uploader_handle", job.req.user.handle)

importFromYaml(job) ==
    LET j1 == Unlink(job)
        yamlData == JSONparse(job.req.upload.text)
        preservedFileName == getPreservedName(job.req.preserved_name)
    IN  IF ~yamlData.ok THEN UploadCatch(j1, "YAMLParseError")
        ELSE IF yamlData.null THEN UploadCatch(j1, "TypeError")
        ELSE IF Get(yamlData.obj, "name") = Undefined
             THEN UploadCatch(j1, "Input must be string")
        ELSE LET name == sanitize(yamlData.obj.name)
                 fileName == OrElse(preservedFileName, getPngName(name))
                 date == humanizedISO8601DateTime(job.time)
                 char == [f \in {"name", "create_date", "chat", "uploader",
                                 "uploader_handle"} |->
                            CASE f = "name" -> name
                              [] f = "create_date" -> date
                              [] f = "chat" -> name \o <<32, 45, 32>> \o date
                              [] f = "uploader" -> job.req.user.name
                              [] f = "uploader_handle" -> job.req.user.handle]
             IN  CallWrite(j1, "default", JSONstringify(char), fileName)

importFromJson(job) ==
    LET j1 == Unlink(job)
        parsed == JSONparse(job.req.upload.text)
        jsonData == parsed.obj
        preservedFileName == getPreservedName(job.req.preserved_name)
    IN  IF ~parsed.ok THEN UploadCatch(j1, "SyntaxError")
        ELSE IF parsed.null THEN UploadCatch(j1, "TypeError")
        ELSE IF "spec" \in DOMAIN jsonData
             THEN LET card == Stamp(readFromV2(unsetPrivateFields(jsonData)), job)
                      name == OrElse(Get(card, "data_name"), Get(card, "name"))
                  IN  IF Falsy(preservedFileName) /\ name = Undefined
                      THEN UploadCatch(j1, "Input must be string")
                      ELSE CallWrite(j1, "default", JSONstringify(card),
                                     OrElse(preservedFileName, getPngName(name)))
        ELSE IF "name" \in DOMAIN jsonData
             THEN LET card == Stamp(jsonData, job)
                  IN  CallWrite(j1, "default", JSONstringify(card),
                                OrElse(preservedFileName, getPngName(card.name)))
        ELSE UploadReturn(j1, <<>>)

\* the catch block of importFromPng, then the one of POST /upload
PngCatch(job, message) == UploadCatch(CleanupIfExists(job), message)

\* readCharacterData(inputFile, 'png'): every error of read() is caught and
\* undefined returned, so the call itself never throws
readCharacterData(file) ==
    LET result == read(file)
    IN  [threw |-> FALSE, undefined |-> ~result.ok, data |-> result.data]

\* the chunk analysis in the catch block around readCharacterData
PngAnalysis(file) ==
    LET textChunks == SelectSeq(file.chunks, LAMBDA c : c.name = "tEXt")
    IN  IF ~file.ok THEN "PNG analysis failed: invalid chunk stream"
        ELSE IF Len(textChunks) = 0
        THEN "PNG analysis failed: PNG file does not contain any text chunks (not a character card)"
        ELSE IF ~\E i \in 1..Len(textChunks) :
                    LowerCase(textChunks[i].keyword) \in {chara, ccv3}
        THEN "PNG analysis failed: PNG file does not contain character card data (chara or ccv3 chunks)"
        ELSE "PNG analysis failed: PNG file structure is valid but data extraction failed"

\* importFromPng from JSON.parse(imgData) to the call of writeCharacterData
PngNormalize(job, imgData) ==
    LET parsed == JSONparse(imgData)
        jsonData == parsed.obj
        preservedFileName == getPreservedName(job.req.preserved_name)
    IN  IF ~parsed.ok THEN PngCatch(job, "Invalid JSON data in PNG file")
        ELSE IF parsed.null THEN PngCatch(job, "TypeError")
        ELSE IF Falsy(Get(jsonData, "name")) /\ Falsy(Get(jsonData, "data_name"))
             THEN PngCatch(job, "Character name not found in PNG file")
        ELSE LET originalName == OrElse(Get(jsonData, "data_name"), Get(jsonData, "name"))
                 named == Set(jsonData, "name", sanitize(originalName))
                 pngName == OrElse(preservedFileName, getPngName(named.name))
             IN  IF "spec" \in DOMAIN named
                 THEN CallWrite(job, "upload",
                                JSONstringify(Stamp(readFromV2(unsetPrivateFields(named)), job)),
                                pngName)
                 ELSE CallWrite(job, "upload", JSONstringify(Stamp(named, job)), pngName)

\* importFromPng up to its first await
importFromPng(job) ==
    LET fileBuffer == job.req.upload.png
        imgData == read(fileBuffer)
    IN  IF ~fileBuffer.sig THEN PngCatch(job, "Invalid PNG file header")
        ELSE IF imgData.ok THEN PngNormalize(job, imgData.data)
        ELSE [job EXCEPT !.pc = "reread"]

\* importFromPng after await readCharacterData(uploadPath)
importFromPngReread(job) ==
    LET fileRead == readCharacterData(job.req.upload.png)
    IN  IF fileRead.threw THEN PngCatch(job, PngAnalysis(job.req.upload.png))
        ELSE IF fileRead.undefined
             THEN PngCatch(job, "Failed to read character data from PNG")
        ELSE PngNormalize(job, fileRead.data)

\* formatImportFunctions[format], and the driver's synchronous start
formatImportFunctions(job) ==
    CASE job.req.file_type \in {"yaml", "yml"} -> importFromYaml(job)
      [] job.req.file_type = "json" -> importFromJson(job)
      [] job.req.file_type = "png" -> importFromPng(job)
      [] OTHER -> UploadCatch(job, "Unsupported format")

(***************************************************************************)
(* The avatar step of writeCharacterData.                                  *)
(***************************************************************************)
Decodable(file) == file.sig /\ file.ok /\ file.pix.ok

\* image.getBuffer('image/png'): a fresh PNG of the picture, no text chunks
Reencode(file) == PngFile(BareChunks, Pix(file.pix.id, TRUE, TRUE))

\* the file getInputImage is given: the default avatar or the temp file
InputFileOf(job, avatarExists) ==
    IF job.pending.inputFile = "default"
    THEN [exists |-> avatarExists, file |-> DefaultAvatar, dotPng |-> TRUE]
    ELSE [exists |-> job.tmp, file |-> job.req.upload.png,
          dotPng |-> job.req.upload.dotPng]

\* an avatar step without the default-avatar fallback
getInputImageNoFallback(job, avatarExists) ==
    LET inp == InputFileOf(job, avatarExists)
        readable == inp.exists /\ Decodable(inp.file)
    IN  IF readable
        THEN [ok |-> TRUE, image |-> Reencode(inp.file), tried |-> <<"input">>]
        ELSE [ok |-> FALSE, image |-> NotPng, tried |-> <<"input", "default">>]

getInputImage(job, avatarExists) ==
    LET inp == InputFileOf(job, avatarExists)
        readable == inp.exists /\ Decodable(inp.file)
        fallback ==
            IF avatarExists
            THEN [ok |-> TRUE, image |-> DefaultAvatar]
            ELSE [ok |-> FALSE, image |-> NotPng]
    IN  IF readable
        THEN [ok |-> TRUE, image |-> Reencode(inp.file), tried |-> <<"input">>]
        ELSE IF inp.dotPng
        THEN \* the original file is read again and parsed as a buffer
             IF readable
             THEN [ok |-> TRUE, image |-> Reencode(inp.file),
                   tried |-> <<"input", "original">>]
             ELSE [ok |-> fallback.ok, image |-> fallback.image,
                   tried |-> <<"input", "original", "default">>]
        ELSE [ok |-> fallback.ok, image |-> fallback.image,
              tried |-> <<"input", "default">>]

\* a write step that stores the image it was given, without the embedding
writeCharacterDataPlain(job, avatarExists, diskOk) ==
    LET inputImage == getInputImage(job, avatarExists)
    IN  [result |-> inputImage.ok /\ diskOk,
         image |-> inputImage.image,
         tried |-> inputImage.tried,
         noAvatar |-> ~inputImage.ok,
         diskFailed |-> inputImage.ok /\ ~diskOk]

\* writeCharacterData: the image, the embedding, the atomic write; diskOk
\* tells whether writeFileAtomicSync succeeds
writeCharacterData(job, avatarExists, diskOk) ==
    LET inputImage == getInputImage(job, avatarExists)
        outputImage == write(inputImage.image, job.pending.data)
    IN  [result |-> inputImage.ok /\ outputImage.ok /\ diskOk,
         image |-> outputImage.image,
         tried |-> inputImage.tried,
         noAvatar |-> ~avatarExists /\ "default" \in
                         {inputImage.tried[i] : i \in 1..Len(inputImage.tried)}
                         \cup {job.pending.inputFile},
         diskFailed |-> inputImage.ok /\ outputImage.ok /\ ~diskOk]

\* the driver after await writeCharacterData, and the response of POST /upload
AfterWrite(job, result) ==
    LET fileName == IF result THEN job.pending.outputFile ELSE <<>>
    IN  IF job.pending.inputFile = "upload"
        THEN IF job.tmp THEN UploadReturn(Unlink(job), fileName)
             ELSE PngCatch(Unlink(job), "ENOENT")
        ELSE UploadReturn(job, fileName)

(***************************************************************************)
(* The public store and its listing.                                       *)
(***************************************************************************)
EmptyStore == [k \in {} |-> [file |-> NotPng, ctime |-> 0, via |-> ""]]

\* writeFileAtomicSync(path.join(PUBLIC_CHARACTERS_DIR, outputFile + '.png'), image)
\* a write that leaves an existing file alone
PutIfAbsent(st, outputFile, image, t, via) ==
    [k \in DOMAIN st \cup {outputFile} |->
        IF k \in DOMAIN st THEN st[k] ELSE [file |-> image, ctime |-> t, via |-> via]]

\* a write that is seen before it is complete
PutTorn(st, outputFile, image, t, via) ==
    [k \in DOMAIN st \cup {outputFile} |->
        IF k = outputFile
        THEN [file |-> [image EXCEPT !.ok = FALSE, !.chunks = <<>>], ctime |-> t, via |-> via]
        ELSE st[k]]

\* a write that empties the directory first
PutAlone(st, outputFile, image, t, via) ==
    [k \in {outputFile} |-> [file |-> image, ctime |-> t, via |-> via]]

\* (via: the driver that wrote the file, kept for the record)
Put(st, outputFile, image, t, via) ==
    [k \in DOMAIN st \cup {outputFile} |->
        IF k = outputFile THEN [file |-> image, ctime |-> t, via |-> via] ELSE st[k]]

DotPng == <<46, 112, 110, 103>>

Unknown == <<85, 110, 107, 110, 111, 119, 110>>

\* item.replace('.png', ''): the first occurrence is removed
RECURSIVE RemoveFirst(_, _)
RemoveFirst(s, sub) ==
    IF Len(s) < Len(sub) THEN s
    ELSE IF SubSeq(s, 1, Len(sub)) = sub THEN SubSeq(s, Len(sub) + 1, Len(s))
    ELSE <<Head(s)>> \o RemoveFirst(Tail(s), sub)

Stub(item) ==
    [decoded |-> FALSE, avatar |-> Undefined, name |-> RemoveFirst(item, DotPng),
     json_data |-> Undefined, create_date |-> Undefined,
     uploader |-> Unknown, uploader_handle |-> LowerCase(Unknown),
     record |-> EmptyObject]

\* processCharacter(item) for the file stored under key
processCharacter(st, key) ==
    LET item == key \o DotPng
        imgData == read(st[key].file)
        fromPath == readCharacterData(st[key].file)
        text == IF imgData.ok THEN imgData.data ELSE fromPath.data
        parsed == JSONparse(text)
        jsonObject == parsed.obj
    IN  IF ~imgData.ok /\ (fromPath.threw \/ fromPath.undefined) THEN Stub(item)
        ELSE IF ~parsed.ok \/ parsed.null THEN Stub(item)
        ELSE [decoded |-> TRUE, avatar |-> item, name |-> Get(jsonObject, "name"),
              json_data |-> text,
              create_date |-> OrElse(Get(jsonObject, "create_date"),
                                     humanizedISO8601DateTime(st[key].ctime)),
              uploader |-> OrElse(Get(jsonObject, "uploader"), Unknown),
              uploader_handle |-> OrElse(Get(jsonObject, "uploader_handle"),
                                         LowerCase(Unknown)),
              record |-> jsonObject]

RECURSIVE SeqOf(_)
SeqOf(S) ==
    IF S = {} THEN <<>>
    ELSE LET x == CHOOSE y \in S : TRUE IN <<x>> \o SeqOf(S \ {x})

NoListing == [status |-> 0, data |-> <<>>]

NoReply == [route |-> "", character_name |-> <<>>, status |-> 0, data |-> <<>>]

\* POST /all: every .png file processed, the entries without a name dropped
allCharacters(st) ==
    LET pngFiles == SeqOf(DOMAIN st)
        processed == [i \in 1..Len(pngFiles) |-> processCharacter(st, pngFiles[i])]
    IN  [status |-> 200, data |-> SelectSeq(processed, LAMBDA c : ~Falsy(c.name))]

(***************************************************************************)
(* The state machine.                                                      *)
(***************************************************************************)
Off == [pc |-> "off", x |-> <<>>, y |-> <<>>, z |-> <<>>]

\* a file somebody put into the directory that is no character card
OldKey == <<79>>
InitStores ==
    { Put(EmptyStore, OldKey, PngFile(BareChunks, Pix("old", TRUE, FALSE)), 0, "old") }

Init ==
    /\ san = Off
    /\ codec = Off
    /\ now = 0
    /\ store \in InitStores
    /\ jobs = [j \in Jobs |-> IdleJob]
    /\ listing = NoListing
    /\ reply = NoReply
    /\ avatar = Off
    /\ route = Off
    /\ invites = Off
    /\ tracker = Off
    /\ forum = Off

\* POST /upload: the request arrives at time t; the handler runs to the
\* driver's first await or to its response
Upload(j) ==
    /\ jobs[j].pc = "idle"
    /\ \A i \in Jobs : i < j => jobs[i].pc \in {"done", "gone"}
    /\ now' = now + 1
    /\ \E inp \in Inputs :
        jobs' = [i \in Jobs |->
                    IF i = j THEN formatImportFunctions(NewJob(inp, now + 1))
                    ELSE IF jobs[i].pc = "done" THEN Gone
                    ELSE jobs[i]]
    /\ listing' = NoListing
    /\ reply' = NoReply
    /\ UNCHANGED <<san, codec, store, avatar, route, invites, tracker, forum>>

\* importFromPng resumes after await readCharacterData(uploadPath)
Reread(j) ==
    /\ jobs[j].pc = "reread"
    /\ jobs' = [jobs EXCEPT ![j] = importFromPngReread(jobs[j])]
    /\ listing' = NoListing
    /\ reply' = NoReply
    /\ UNCHANGED <<san, codec, now, store, avatar, route, invites, tracker, forum>>

\* writeCharacterData runs, the driver returns, POST /upload responds
WriteCharacter(j) ==
    /\ jobs[j].pc = "image"
    /\ \E avatarExists \in BOOLEAN, diskOk \in BOOLEAN :
        LET w == writeCharacterData(jobs[j], avatarExists, diskOk)
            done == AfterWrite(jobs[j], w.result)
            key == jobs[j].pending.outputFile
        IN  /\ store' = IF w.result
                        THEN Put(store, key, w.image, now, jobs[j].req.file_type)
                        ELSE store
            /\ jobs' = [jobs EXCEPT ![j] =
                           [done EXCEPT !.tried = w.tried, !.wrote = w.result,
                                        !.replaced = IF w.result /\ key \in DOMAIN store
                                                     THEN store[key].via ELSE "",
                                        !.noAvatar = w.noAvatar,
                                        !.diskFailed = w.diskFailed]]
    /\ listing' = NoListing
    /\ reply' = NoReply
    /\ UNCHANGED <<san, codec, now, avatar, route, invites, tracker, forum>>

ListAll ==
    /\ listing' = allCharacters(store)
    /\ reply' = NoReply
    /\ UNCHANGED <<san, codec, now, store, jobs, avatar, route, invites, tracker, forum>>

Next ==
    \/ \E j \in Jobs : Upload(j)
    \/ \E j \in Jobs : Reread(j)
    \/ \E j \in Jobs : WriteCharacter(j)
    \/ ListAll

Spec == Init /\ [][Next]_vars

(***************************************************************************)
(* The file-name sanitization taken alone: a name is drawn, getPngName is  *)
(* applied to it, and again to the result.                                 *)
(***************************************************************************)
\* NUL, space, '.', '/', 'A', 'c', 'n', 'o', e-acute, a CJK ideograph
Alphabet == {0, 32, 46, 47, 65, 99, 110, 111, 233, 20013}

InitSan ==
    /\ san \in {[pc |-> "input", x |-> s, y |-> <<>>, z |-> <<>>] :
                    s \in SeqsUpTo(Alphabet, MaxLen)}
    /\ codec = Off
    /\ now = 0
    /\ store = EmptyStore
    /\ jobs = [j \in Jobs |-> IdleJob]
    /\ listing = NoListing
    /\ reply = NoReply
    /\ avatar = Off
    /\ route = Off
    /\ invites = Off
    /\ tracker = Off
    /\ forum = Off

SanitizeOnce ==
    /\ san.pc = "input"
    /\ san' = [san EXCEPT !.pc = "once", !.y = getPngName(san.x)]
    /\ UNCHANGED <<codec, now, store, jobs, listing, reply, avatar, route, invites, tracker, forum>>

SanitizeTwice ==
    /\ san.pc = "once"
    /\ san' = [san EXCEPT !.pc = "twice", !.z = getPngName(san.y)]
    /\ UNCHANGED <<codec, now, store, jobs, listing, reply, avatar, route, invites, tracker, forum>>

NextSan == SanitizeOnce \/ SanitizeTwice

SpecSan == InitSan /\ [][NextSan]_vars

(***************************************************************************)
(* The codec taken alone: a payload is embedded into an image with write   *)
(* and read back with read.                                                *)
(***************************************************************************)
MaxPayload == 4     \* longest payload of arbitrary bytes

PayloadBytes == {0, 65, 255}

\* the records a driver embeds: a source record stamped for a caller
CanonicalRecords ==
    { Stamp(unsetPrivateFields(o), NewJob([file_type |-> "json",
                                           upload |-> TextUpload(<<>>), user |-> u,
                                           preserved_name |-> <<>>], 1)) :
        o \in SrcObjects, u \in Users }

CodecPayloads ==
    {JSONstringify(o) : o \in CanonicalRecords} \cup SeqsUpTo(PayloadBytes, MaxPayload)

CodecImages ==
    { DefaultAvatar, Reencode(DefaultAvatar),
      CardPng(chara, NullText, TRUE),
      PngFile(<< PlainChunk("IHDR"), TextChunk(ccv3, Base64Encode(BadText)),
                 PlainChunk("IDAT"), TextChunk(<<67, 104, 97, 114, 97>>, <<>>),
                 PlainChunk("IEND") >>, Pix("upload", TRUE, FALSE)) }

InitCodec ==
    /\ san = Off
    /\ codec \in {[pc |-> "input", x |-> [image |-> img, data |-> d],
                   y |-> [ok |-> FALSE, image |-> NotPng],
                   z |-> [ok |-> FALSE, err |-> "", data |-> <<>>]] :
                     img \in CodecImages, d \in CodecPayloads}
    /\ now = 0
    /\ store = EmptyStore
    /\ jobs = [j \in Jobs |-> Gone]
    /\ listing = NoListing
    /\ reply = NoReply
    /\ avatar = Off
    /\ route = Off
    /\ invites = Off
    /\ tracker = Off
    /\ forum = Off

Encode ==
    /\ codec.pc # "off"
    /\ codec.pc = "input"
    /\ codec' = [codec EXCEPT !.pc = "encoded", !.y = write(codec.x.image, codec.x.data)]
    /\ UNCHANGED <<san, now, store, jobs, listing, reply, avatar, route, invites, tracker, forum>>

Decode ==
    /\ codec.pc # "off"
    /\ codec.pc = "encoded"
    /\ codec' = [codec EXCEPT !.pc = "decoded", !.z = read(codec.y.image)]
    /\ UNCHANGED <<san, now, store, jobs, listing, reply, avatar, route, invites, tracker, forum>>

\* the imports together with the codec taken alone
SpecRoundTrip == (Init \/ InitCodec) /\ [][Next \/ Encode \/ Decode]_vars

(***************************************************************************)
(* The library with its readers: uploads that run concurrently (each       *)
(* handler runs without interruption between two awaits), POST /get and    *)
(* POST /delete.                                                           *)
(***************************************************************************)
\* an administrator
Carol == [handle |-> <<99>>, name |-> <<67, 97>>, admin |-> TRUE]

Callers == Users \cup {Carol}

\* character_name of the request body: "A", "P", "B", "O", "Z", "" and absent
CharacterNames == { <<65>>, <<80>>, <<66>>, OldKey, <<90>>, <<>>, Undefined }

\* the uploads of the concurrent jobs
ParInputs ==
    { [file_type |-> "json", upload |-> TextUpload(JSONstringify(V1(<<65>>))),
       user |-> Alice, preserved_name |-> <<>>],
      [file_type |-> "json", upload |-> TextUpload(JSONstringify(V1(<<65>>))),
       user |-> Bob, preserved_name |-> <<80, 46, 112, 110, 103>>],
      [file_type |-> "json",
       upload |-> TextUpload(JSONstringify(V2(Set(EmptyObject, "data_name", <<66>>)))),
       user |-> Bob, preserved_name |-> <<>>],
      [file_type |-> "png",
       upload |-> PngUpload(CardPng(chara, JSONstringify(V1(<<65>>)), TRUE), FALSE),
       user |-> Alice, preserved_name |-> <<80, 46, 112, 110, 103>>],
      [file_type |-> "png",
       upload |-> PngUpload(CardPng(ccv3, JSONstringify(V1(<<65>>)), FALSE), FALSE),
       user |-> Bob, preserved_name |-> <<>>],
      [file_type |-> "png",
       upload |-> PngUpload(PngFile(BareChunks, Pix("upload", TRUE, FALSE)), FALSE),
       user |-> Alice, preserved_name |-> <<>>] }

\* fs.unlinkSync(characterPath) that removes nothing
RemoveNothing(st, key) == st

\* fs.unlinkSync(characterPath)
Remove(st, key) == [k \in DOMAIN st \ {key} |-> st[k]]

\* a get that answers from the file name alone, without decoding the file
routeGetUndecoded(st, character_name) ==
    IF Falsy(character_name) THEN [status |-> 400, data |-> <<>>]
    ELSE IF character_name \notin DOMAIN st THEN [status |-> 404, data |-> <<>>]
    ELSE [status |-> 200, data |-> <<Stub(character_name \o DotPng)>>]

\* POST /get: the status and the body of the response
routeGet(st, character_name) ==
    IF Falsy(character_name) THEN [status |-> 400, data |-> <<>>]
    ELSE IF character_name \notin DOMAIN st THEN [status |-> 404, data |-> <<>>]
    ELSE [status |-> 200, data |-> <<processCharacter(st, character_name)>>]

\* POST /delete (the request passes validateAvatarUrlMiddleware): the status
\* of the response and the store it leaves
routeDelete(st, character_name, user) ==
    IF Falsy(character_name) THEN [status |-> 400, store |-> st]
    ELSE IF character_name \notin DOMAIN st THEN [status |-> 404, store |-> st]
    ELSE LET characterInfo == processCharacter(st, character_name)
             isUploader == characterInfo.uploader_handle = user.handle
         IN  IF ~user.admin /\ ~isUploader THEN [status |-> 403, store |-> st]
             ELSE [status |-> 200, store |-> Remove(st, character_name)]

\* POST /upload of a job that does not wait for the others
Submit(j) ==
    /\ jobs[j].pc = "idle"
    /\ now' = now + 1
    /\ \E inp \in ParInputs :
        jobs' = [jobs EXCEPT ![j] = formatImportFunctions(NewJob(inp, now + 1))]
    /\ listing' = NoListing
    /\ reply' = NoReply
    /\ UNCHANGED <<san, codec, store, avatar, route, invites, tracker, forum>>

GetCharacter ==
    /\ \E character_name \in CharacterNames :
        LET r == routeGet(store, character_name)
        IN  reply' = [route |-> "get", character_name |-> character_name,
                      status |-> r.status, data |-> r.data]
    /\ listing' = NoListing
    /\ UNCHANGED <<san, codec, now, store, jobs, avatar, route, invites, tracker, forum>>

DeleteCharacter ==
    /\ \E character_name \in CharacterNames, user \in Callers :
        LET r == routeDelete(store, character_name, user)
        IN  /\ store' = r.store
            /\ reply' = [route |-> "delete", character_name |-> character_name,
                         status |-> r.status, data |-> <<>>]
    /\ listing' = NoListing
    /\ UNCHANGED <<san, codec, now, jobs, avatar, route, invites, tracker, forum>>

NextPar ==
    \/ \E j \in Jobs : Submit(j)
    \/ \E j \in Jobs : Reread(j)
    \/ \E j \in Jobs : WriteCharacter(j)
    \/ ListAll
    \/ GetCharacter
    \/ DeleteCharacter

SpecPar == Init /\ [][NextPar]_vars

(***************************************************************************)
(* What the properties speak of.                                           *)
(***************************************************************************)
Done(j) == jobs[j].pc = "done"

Succeeded(j) == Done(j) /\ jobs[j].status = 200

\* the JSON (YAML) text a driver takes its record from
SourceText(req) ==
    IF req.file_type = "png" THEN read(req.upload.png).data ELSE req.upload.text

SourceRecord(req) == JSONparse(SourceText(req)).obj

\* the record read back from the file stored under key
StoredRecord(st, key) == processCharacter(st, key).record

\* a driver run from the request to its call of writeCharacterData (or to
\* its response)
RunDriver(inp, t) ==
    LET started == formatImportFunctions(NewJob(inp, t))
    IN  IF started.pc = "reread" THEN importFromPngReread(started) ELSE started

IsPngJob(j) == jobs[j].req.file_type = "png"

\* the record a job handed to writeCharacterData
EmbeddedRecord(j) == JSONparse(jobs[j].pending.data).obj

HasTextChunk(file) == \E i \in 1..Len(file.chunks) : file.chunks[i].name = "tEXt"

HasCardChunk(file) == \E i \in 1..Len(file.chunks) : IsCardChunk(file.chunks[i])

\* the three kinds of rejected PNG uploads
PngClass(file) ==
    IF ~file.sig THEN "InvalidContainerHeader"
    ELSE IF file.ok /\ ~HasTextChunk(file) THEN "NoTextSegments"
    ELSE IF file.ok /\ ~HasCardChunk(file) THEN "NotACharacterCard"
    ELSE "other"

PngClasses == {"InvalidContainerHeader", "NoTextSegments", "NotACharacterCard"}

(***************************************************************************)
(* C1: in the PNG driver an upload without the PNG signature, a PNG        *)
(* without any text chunk and a PNG whose text chunks are all foreign fail *)
(* with three different errors: no upload of one kind is answered with the *)
(* error that the driver gives to an upload of another kind.               *)
(***************************************************************************)
C1_DistinctPngErrors ==
    \A j \in Jobs :
        Done(j) /\ IsPngJob(j) /\ PngClass(jobs[j].req.upload.png) \in PngClasses
        => /\ jobs[j].status = 400
           /\ \A inp \in Inputs :
                (/\ inp.file_type = "png"
                 /\ PngClass(inp.upload.png) \in PngClasses
                 /\ PngClass(inp.upload.png) # PngClass(jobs[j].req.upload.png))
                => RunDriver(inp, jobs[j].time).error # jobs[j].error

C3_FailureLeavesStore ==
    [][\A j \in Jobs :
          (jobs[j].pc # "done" /\ jobs'[j].pc = "done" /\ jobs'[j].status # 200)
          => store' = store]_vars

(***************************************************************************)
(* C4: after a successful import the uploader, the uploader handle and the *)
(* creation date of the stored record are the caller's name, the caller's  *)
(* handle and the import time, and the stored record is the one the import *)
(* stores for the same source without these three fields.                  *)
(***************************************************************************)
IdentityFields == {"uploader", "uploader_handle", "create_date"}

WithoutIdentity(t) ==
    LET parsed == JSONparse(t)
    IN  IF parsed.ok /\ ~parsed.null
        THEN JSONstringify([f \in DOMAIN parsed.obj \ IdentityFields |-> parsed.obj[f]])
        ELSE t

\* the request with the three fields taken out of the uploaded source
Anonymous(req) ==
    [req EXCEPT
        !.upload.text = WithoutIdentity(@),
        !.upload.png.chunks =
            [i \in 1..Len(@) |->
                IF IsCardChunk(@[i])
                THEN [@[i] EXCEPT !.text = Base64Encode(WithoutIdentity(Base64Decode(@)))]
                ELSE @[i]]]

C4_StampedByCaller ==
    \A j \in Jobs :
        Succeeded(j)
        => LET record == EmbeddedRecord(j)
           IN  /\ StoredRecord(store, jobs[j].file_name) = record
               /\ Get(record, "uploader") = jobs[j].req.user.name
               /\ Get(record, "uploader_handle") = jobs[j].req.user.handle
               /\ Get(record, "create_date") = humanizedISO8601DateTime(jobs[j].time)
               /\ record = JSONparse(RunDriver(Anonymous(jobs[j].req),
                                               jobs[j].time).pending.data).obj

\* a successful import of a source that names another uploader
C4_Witness ==
    \E j \in Jobs :
        /\ Succeeded(j)
        /\ "uploader_handle" \in DOMAIN SourceRecord(jobs[j].req)
        /\ SourceRecord(jobs[j].req).uploader_handle # jobs[j].req.user.handle

(***************************************************************************)
(* C5: after a successful json or png import of a source with a spec       *)
(* field, the stored record has none of the five private-note fields.      *)
(***************************************************************************)
C5_NoPrivateNotes ==
    \A j \in Jobs :
        (/\ Succeeded(j)
         /\ jobs[j].req.file_type \in {"json", "png"}
         /\ "spec" \in DOMAIN SourceRecord(jobs[j].req))
        => /\ DOMAIN EmbeddedRecord(j) \cap PrivateFields = {}
           /\ DOMAIN StoredRecord(store, jobs[j].file_name) \cap PrivateFields = {}

\* such an import of a source that carried all five
C5_Witness ==
    \E j \in Jobs :
        /\ Succeeded(j)
        /\ IsPngJob(j)
        /\ "spec" \in DOMAIN SourceRecord(jobs[j].req)
        /\ PrivateFields \subseteq DOMAIN SourceRecord(jobs[j].req)

(***************************************************************************)
(* C6: a payload written into an image with write and read back with read  *)
(* comes back unchanged, and after a successful import the text read from  *)
(* the stored file is the JSON text the import embedded.                   *)
(***************************************************************************)
C6_RoundTrip ==
    /\ codec.pc = "decoded"
       => /\ codec.y.ok
          /\ codec.z.ok
          /\ codec.z.data = codec.x.data
    /\ \A j \in Jobs :
        Done(j) /\ jobs[j].wrote
        => LET c == processCharacter(store, jobs[j].pending.outputFile)
           IN  /\ read(store[jobs[j].pending.outputFile].file).ok
               /\ read(store[jobs[j].pending.outputFile].file).data = jobs[j].pending.data
               /\ c.decoded
               /\ c.json_data = jobs[j].pending.data

\* a canonical record went through the default image and came back
C6_Witness ==
    /\ codec.pc = "decoded"
    /\ codec.x.image = DefaultAvatar
    /\ codec.x.data \in {JSONstringify(o) : o \in CanonicalRecords}
    /\ Len(codec.x.data) > 0
    /\ codec.z.data = codec.x.data

(***************************************************************************)
(* C7: when a PNG import writes under a key that an earlier PNG import     *)
(* wrote, the store keeps the same keys, the other files are untouched,    *)
(* the file under the key has one card chunk and its record is the record  *)
(* of this import.                                                         *)
(***************************************************************************)
CardChunks(file) == {i \in 1..Len(file.chunks) : IsCardChunk(file.chunks[i])}

C7_ReimportReplaces ==
    [][\A j \in Jobs :
          LET key == jobs[j].pending.outputFile
          IN  (/\ jobs[j].pc = "image"
               /\ jobs'[j].pc = "done"
               /\ jobs'[j].wrote
               /\ IsPngJob(j)
               /\ jobs[j].req.preserved_name # <<>>
               /\ key \in DOMAIN store
               /\ store[key].via = "png")
              => /\ DOMAIN store' = DOMAIN store
                 /\ \A k \in DOMAIN store \ {key} : store'[k] = store[k]
                 /\ Cardinality(CardChunks(store'[key].file)) = 1
                 /\ StoredRecord(store', key) = JSONparse(jobs[j].pending.data).obj
                 /\ Get(StoredRecord(store', key), "create_date")
                        = humanizedISO8601DateTime(jobs[j].time)
                 /\ jobs'[j].file_name = key]_vars

\* the second PNG import under the preserved name has answered
C7_Witness ==
    \E j \in Jobs :
        /\ Succeeded(j)
        /\ IsPngJob(j)
        /\ jobs[j].req.preserved_name # <<>>
        /\ jobs[j].replaced = "png"
        /\ jobs[j].file_name = jobs[j].pending.outputFile

(***************************************************************************)
(* C8: getPngName applied to its own result changes nothing, and its       *)
(* result has no path separator and no control character.                  *)
(***************************************************************************)
C8_SanitizeIdempotent ==
    san.pc = "twice"
    => /\ san.z = san.y
       /\ \A i \in 1..Len(san.y) : san.y[i] \notin {47, 92} \cup controlRe

(***************************************************************************)
(* C9: when the input image of writeCharacterData cannot be decoded and    *)
(* the default avatar exists, the avatar step yields the default avatar,   *)
(* the file is written (the disk permitting) and the job does not fail on  *)
(* that account.                                                           *)
(***************************************************************************)
C9_FallbackAvatar ==
    \A j \in Jobs :
        (/\ Done(j)
         /\ Len(jobs[j].tried) > 1
         /\ ~jobs[j].noAvatar
         /\ ~jobs[j].diskFailed)
        => /\ jobs[j].wrote
           /\ store[jobs[j].pending.outputFile].file.pix = DefaultAvatar.pix
           /\ read(store[jobs[j].pending.outputFile].file).data = jobs[j].pending.data
           /\ jobs[j].pending.outputFile # <<>> => jobs[j].status = 200

\* a PNG import whose picture could not be decoded has succeeded
C9_Witness ==
    \E j \in Jobs :
        /\ Succeeded(j)
        /\ IsPngJob(j)
        /\ ~Decodable(jobs[j].req.upload.png)
        /\ jobs[j].tried = <<"input", "default">>
        /\ jobs[j].wrote

(***************************************************************************)
(* C10: the listing answers 200 and holds the decoded entry of every       *)
(* stored file that can be decoded, whatever else is in the store.         *)
(***************************************************************************)
C10_ListingComplete ==
    listing.status # 0
    => /\ listing.status = 200
       /\ \A k \in DOMAIN store :
            processCharacter(store, k).decoded
            => \E i \in 1..Len(listing.data) : listing.data[i] = processCharacter(store, k)

(***************************************************************************)
(* C11: under every interleaving of concurrent imports with get and        *)
(* listing requests, a reader sees under a key no file or the complete     *)
(* artifact of one finished write; a write leaves under its key exactly    *)
(* its own artifact, and nothing but a write to the key or a delete of the *)
(* key changes what is stored under it, so the last write stays.           *)
(***************************************************************************)
\* file is the whole artifact that job wrote: a valid PNG with one card
\* chunk that holds the text the job embedded
ArtifactOf(file, job) ==
    /\ file.sig /\ file.ok
    /\ Cardinality(CardChunks(file)) = 1
    /\ read(file).ok
    /\ read(file).data = job.pending.data

\* job j finishes a successful write in this step
Writes(j) == jobs[j].pc = "image" /\ jobs'[j].pc = "done" /\ jobs'[j].wrote

Changed(k) ==
    \/ (k \in DOMAIN store) # (k \in DOMAIN store')
    \/ k \in DOMAIN store /\ k \in DOMAIN store' /\ store'[k] # store[k]

Deletes(k) ==
    reply'.route = "delete" /\ reply'.status = 200 /\ reply'.character_name = k

C11_AtomicLastWriter ==
    [][/\ (reply'.route = "get" /\ reply'.character_name # OldKey)
          => \/ reply'.status \in {400, 404} /\ reply'.data = <<>>
             \/ /\ reply'.status = 200
                /\ \E j \in Jobs :
                    /\ jobs'[j].wrote
                    /\ jobs'[j].pending.outputFile = reply'.character_name
                    /\ ArtifactOf(store'[reply'.character_name].file, jobs'[j])
                    /\ reply'.data[1].json_data = jobs'[j].pending.data
       /\ listing'.status = 200
          => \A i \in 1..Len(listing'.data) :
                listing'.data[i].decoded
                => \E j \in Jobs : /\ jobs'[j].wrote
                                   /\ listing'.data[i].json_data = jobs'[j].pending.data
       /\ \A j \in Jobs :
            Writes(j) => ArtifactOf(store'[jobs[j].pending.outputFile].file, jobs'[j])
       /\ \A k \in DOMAIN store \cup DOMAIN store' :
            Changed(k) => \/ Deletes(k)
                          \/ \E j \in Jobs : Writes(j) /\ jobs[j].pending.outputFile = k
      ]_vars

\* both jobs wrote under "P" and a reader then got the entry
C11_Witness ==
    /\ \A j \in Jobs : jobs[j].wrote /\ jobs[j].pending.outputFile = <<80>>
    /\ jobs[1].pending.data # jobs[2].pending.data
    /\ reply.route = "get"
    /\ reply.character_name = <<80>>
    /\ reply.status = 200

(***************************************************************************)
(* C12: a parsed record is handled as V2/V3 (its private notes removed)    *)
(* only when its spec field has a recognized value, it is handled as V1    *)
(* (stored as it is, stamped) when it has a name and no spec, and a record *)
(* with neither a recognized spec nor a name is rejected and nothing is    *)
(* written.                                                                *)
(***************************************************************************)
\* the spec values of the card generations V2 and V3
RecognizedSpecs == { <<118, 50>>, <<118, 51>> }

\* the driver of job j obtained a record from its source
ParsedSource(j) ==
    /\ jobs[j].req.file_type \in {"json", "png"}
    /\ IsPngJob(j) => read(jobs[j].req.upload.png).ok
    /\ JSONparse(SourceText(jobs[j].req)).ok
    /\ ~JSONparse(SourceText(jobs[j].req)).null

C12_SchemaDetection ==
    \A j \in Jobs :
        (Done(j) /\ ParsedSource(j))
        => LET o == SourceRecord(jobs[j].req)
               recognized == "spec" \in DOMAIN o /\ o.spec \in RecognizedSpecs
               named == "name" \in DOMAIN o
               notes == DOMAIN o \cap PrivateFields
           IN  /\ (~recognized /\ ~named) => (jobs[j].status = 400 /\ ~jobs[j].wrote)
               /\ (jobs[j].wrote /\ notes # {} /\ DOMAIN EmbeddedRecord(j) \cap notes = {})
                  => recognized
               /\ (jobs[j].wrote /\ named /\ "spec" \notin DOMAIN o)
                  => notes \subseteq DOMAIN EmbeddedRecord(j)

(***************************************************************************)
(* C13: in the PNG driver, once the metadata was decoded, a payload that   *)
(* is no JSON fails with the invalid-JSON error and every payload that     *)
(* parses but has no non-empty name (null included) fails with the         *)
(* missing-name error, never with another error.                           *)
(***************************************************************************)
C13_PngPayloadErrors ==
    \A j \in Jobs :
        (Done(j) /\ IsPngJob(j) /\ jobs[j].req.upload.png.sig
                 /\ read(jobs[j].req.upload.png).ok)
        => LET parsed == JSONparse(read(jobs[j].req.upload.png).data)
               nameless == \/ parsed.null
                           \/ /\ Falsy(Get(parsed.obj, "name"))
                              /\ Falsy(Get(parsed.obj, "data_name"))
           IN  /\ ~parsed.ok
                  => /\ jobs[j].status = 400
                     /\ jobs[j].error = "Invalid JSON data in PNG file"
               /\ (parsed.ok /\ nameless)
                  => /\ jobs[j].status = 400
                     /\ jobs[j].error = "Character name not found in PNG file"

(***************************************************************************)
(* C14: every artifact a driver writes is stored under a non-empty file    *)
(* name and its record has a name that is not empty after sanitization.    *)
(***************************************************************************)
\* the display name of a record: data.name, or else name
DisplayName(o) == OrElse(Get(o, "data_name"), Get(o, "name"))

C14_NamedArtifacts ==
    \A j \in Jobs :
        (Done(j) /\ jobs[j].wrote)
        => /\ jobs[j].pending.outputFile # <<>>
           /\ DisplayName(EmbeddedRecord(j)) # Undefined
           /\ sanitize(DisplayName(EmbeddedRecord(j))) # <<>>

(***************************************************************************)
(* C15: when the request carries a preserved file name, the artifact is    *)
(* stored under it (without its extension) and that key is returned; the   *)
(* name derived from the record's display name is the key only when no     *)
(* preserved file name was given.                                          *)
(***************************************************************************)
\* the file name a driver derives from the source record
DerivedName(req) ==
    LET o == SourceRecord(req)
    IN  CASE req.file_type \in {"yaml", "yml"} -> getPngName(sanitize(Get(o, "name")))
          [] req.file_type = "png" -> getPngName(sanitize(DisplayName(o)))
          [] "spec" \in DOMAIN o -> getPngName(DisplayName(o))
          [] OTHER -> getPngName(Get(o, "name"))

C15_PreservedNameWins ==
    \A j \in Jobs :
        (Done(j) /\ jobs[j].wrote)
        => LET key == jobs[j].pending.outputFile
               preserved_name == jobs[j].req.preserved_name
           IN  /\ key \in DOMAIN store
               /\ StoredRecord(store, key) = EmbeddedRecord(j)
               /\ preserved_name # <<>>
                  => /\ key = PathName(preserved_name)
                     /\ key \o DotPng = preserved_name
                     /\ jobs[j].status = 200
                     /\ jobs[j].file_name = key
               /\ preserved_name = <<>>
                  => /\ key = DerivedName(jobs[j].req)
                     /\ key # <<>> => (jobs[j].status = 200 /\ jobs[j].file_name = key)

\* an import with a preserved name whose record would have given another key
C15_Witness ==
    \E j \in Jobs :
        /\ Succeeded(j)
        /\ jobs[j].req.preserved_name # <<>>
        /\ jobs[j].file_name = <<80>>
        /\ DerivedName(jobs[j].req) = <<65>>

(***************************************************************************)
(* C16: getPngName keeps every Unicode letter and digit of the name, in    *)
(* place, and puts '_' for every other character.                          *)
(***************************************************************************)
\* the letters and digits of Unicode up to U+00FF, and the CJK ideographs
UnicodeLettersAndDigits ==
    (48..57) \cup (65..90) \cup (97..122) \cup {170, 181, 186}
    \cup (192..214) \cup (216..246) \cup (248..255) \cup (19968..40959)

C16_KeepsLettersAndDigits ==
    san.pc \in {"once", "twice"}
    => /\ Len(san.y) = Len(san.x)
       /\ \A i \in 1..Len(san.x) :
            san.y[i] = IF san.x[i] \in UnicodeLettersAndDigits THEN san.x[i] ELSE 95

(***************************************************************************)
(* C17: the listing has one entry for every stored file: the record of a   *)
(* file that decodes, and for a file that does not decode a stub with the  *)
(* file name, the name derived from it and the uploader 'Unknown'.         *)
(***************************************************************************)
C17_ListingCoversStore ==
    listing.status = 200
    => /\ Len(listing.data) = Cardinality(DOMAIN store)
       /\ \A k \in DOMAIN store :
            \E i \in 1..Len(listing.data) :
                LET c == listing.data[i]
                IN  IF processCharacter(store, k).decoded
                    THEN /\ c.decoded
                         /\ c.avatar = k \o DotPng
                         /\ c.record = StoredRecord(store, k)
                    ELSE /\ ~c.decoded
                         /\ c.avatar = k \o DotPng
                         /\ c.name = k
                         /\ c.uploader = Unknown

(***************************************************************************)
(* C18: a delete of a name that is not in the store answers 404 and leaves *)
(* the store as it is; a delete that answers 200 removes that file and no  *)
(* other; a get of a name that is not in the store answers 404, and a name *)
(* comes (back) into the store only by the write of an import.             *)
(***************************************************************************)
C18_DeleteRemoves ==
    [][/\ reply'.route = "delete"
          => LET k == reply'.character_name
             IN  /\ (~Falsy(k) /\ k \notin DOMAIN store)
                    => (reply'.status = 404 /\ store' = store)
                 /\ reply'.status = 200
                    => /\ k \in DOMAIN store
                       /\ DOMAIN store' = DOMAIN store \ {k}
                       /\ \A x \in DOMAIN store' : store'[x] = store[x]
                 /\ reply'.status # 200 => store' = store
       /\ reply'.route = "get"
          => LET k == reply'.character_name
             IN  /\ store' = store
                 /\ (~Falsy(k) /\ k \notin DOMAIN store) => reply'.status = 404
                 /\ k \in DOMAIN store /\ ~Falsy(k) => reply'.status = 200
       /\ \A k \in DOMAIN store' \ DOMAIN store :
            \E j \in Jobs : Writes(j) /\ jobs[j].pending.outputFile = k
      ]_vars

\* an artifact was imported under "P", deleted, and a get then found nothing
C18_Witness ==
    /\ \E j \in Jobs : jobs[j].wrote /\ jobs[j].pending.outputFile = <<80>>
    /\ <<80>> \notin DOMAIN store
    /\ reply.route = "get"
    /\ reply.character_name = <<80>>
    /\ reply.status = 404

(***************************************************************************)
(* C19: a get answers with the record decoded from the file that is under  *)
(* the name at that moment, and 404 when there is none; right after an     *)
(* import wrote under a name, that is the record of this import and not    *)
(* the record of an import that wrote there before.                        *)
(***************************************************************************)
C19_GetReadsCurrentBytes ==
    [][/\ reply'.route = "get"
          => LET k == reply'.character_name
             IN  IF Falsy(k) THEN reply'.status = 400
                 ELSE IF k \notin DOMAIN store'
                 THEN reply'.status = 404 /\ reply'.data = <<>>
                 ELSE /\ reply'.status = 200
                      /\ Len(reply'.data) = 1
                      /\ read(store'[k].file).ok
                         => /\ reply'.data[1].json_data = read(store'[k].file).data
                            /\ reply'.data[1].record
                                   = JSONparse(read(store'[k].file).data).obj
                            /\ \E j \in Jobs :
                                /\ jobs'[j].wrote
                                /\ jobs'[j].pending.outputFile = k
                                /\ reply'.data[1].record = JSONparse(jobs'[j].pending.data).obj
       /\ \A j \in Jobs :
            (Writes(j) /\ jobs[j].pending.outputFile # <<>>)
            => LET k == jobs[j].pending.outputFile
                   got == routeGet(store', k)
               IN  /\ got.status = 200
                   /\ got.data[1].record = JSONparse(jobs'[j].pending.data).obj
                   /\ \A i \in Jobs \ {j} :
                        (jobs[i].wrote /\ jobs[i].pending.outputFile = k)
                        => got.data[1].record # JSONparse(jobs[i].pending.data).obj
      ]_vars

\* two imports wrote under "P" and a get answered with the record of one
C19_Witness ==
    \E j \in Jobs :
        /\ \A i \in Jobs : jobs[i].wrote /\ jobs[i].pending.outputFile = <<80>>
        /\ reply.route = "get"
        /\ reply.status = 200
        /\ reply.data[1].decoded
        /\ reply.data[1].record = EmbeddedRecord(j)
        /\ \A i \in Jobs \ {j} : reply.data[1].record # EmbeddedRecord(i)

(***************************************************************************)
(* C20: a step of an import job changes at most the store entry under the  *)
(* job's own key and a delete at most the entry it names; what a job       *)
(* answers and what it writes is what the same request gives when it runs  *)
(* alone, whatever the other jobs and the store are.                       *)
(***************************************************************************)
\* the responses [status, error, file_name, file written] that the request
\* of a job can get when it is the only one
AloneOutcomes(job) ==
    LET driven == RunDriver(job.req, job.time)
    IN  IF driven.pc = "done"
        THEN {[status |-> driven.status, error |-> driven.error,
               file_name |-> driven.file_name, wrote |-> FALSE, image |-> NotPng]}
        ELSE {LET w == writeCharacterData(driven, avatarExists, diskOk)
                  done == AfterWrite(driven, w.result)
              IN  [status |-> done.status, error |-> done.error,
                   file_name |-> done.file_name, wrote |-> w.result,
                   image |-> IF w.result THEN w.image ELSE NotPng] :
                avatarExists \in BOOLEAN, diskOk \in BOOLEAN}

C20_OwnKeyOnly ==
    [][/\ \A j \in Jobs :
            jobs'[j] # jobs[j]
            => /\ \A i \in Jobs \ {j} : jobs'[i] = jobs[i]
               /\ DOMAIN store \subseteq DOMAIN store'
               /\ DOMAIN store' \subseteq DOMAIN store \cup {jobs'[j].pending.outputFile}
               /\ \A k \in DOMAIN store \ {jobs'[j].pending.outputFile} :
                    store'[k] = store[k]
               /\ jobs'[j].pc = "done"
                  => [status |-> jobs'[j].status, error |-> jobs'[j].error,
                      file_name |-> jobs'[j].file_name, wrote |-> jobs'[j].wrote,
                      image |-> IF jobs'[j].wrote
                                THEN store'[jobs'[j].pending.outputFile].file
                                ELSE NotPng] \in AloneOutcomes(jobs'[j])
       /\ reply'.route = "delete"
          => /\ jobs' = jobs
             /\ DOMAIN store' \subseteq DOMAIN store
             /\ DOMAIN store \ {reply'.character_name} \subseteq DOMAIN store'
             /\ \A k \in DOMAIN store' : store'[k] = store[k]
       /\ (reply'.route = "get" \/ listing'.status = 200) => store' = store
      ]_vars

\* two imports under different keys, both files are in the store
C20_Witness ==
    /\ \A j \in Jobs : Succeeded(j) /\ jobs[j].wrote
    /\ jobs[1].pending.outputFile # jobs[2].pending.outputFile
    /\ \A j \in Jobs :
        /\ jobs[j].pending.outputFile \in DOMAIN store
        /\ ArtifactOf(store[jobs[j].pending.outputFile].file, jobs[j])
    /\ OldKey \in DOMAIN store

(***************************************************************************)
(* Uploads and deletes with the requester of a delete kept in the reply.   *)
(***************************************************************************)
\* a user who registered with the handle "unknown"
Dan == [handle |-> LowerCase(Unknown), name |-> <<68>>, admin |-> FALSE]

Requesters == Callers \cup {Dan}

DeletedNames == { <<80>>, <<65>>, OldKey }

\* POST /delete sent by user
DeleteAs ==
    /\ \E character_name \in DeletedNames, user \in Requesters :
        LET r == routeDelete(store, character_name, user)
        IN  /\ store' = r.store
            /\ reply' = [route |-> "delete", character_name |-> character_name,
                         user |-> user, status |-> r.status, data |-> <<>>]
    /\ listing' = NoListing
    /\ UNCHANGED <<san, codec, now, jobs, avatar, route, invites, tracker, forum>>

NextAuth ==
    \/ \E j \in Jobs : Submit(j)
    \/ \E j \in Jobs : Reread(j)
    \/ \E j \in Jobs : WriteCharacter(j)
    \/ DeleteAs

SpecAuth == Init /\ [][NextAuth]_vars

(***************************************************************************)
(* The avatar step on its own: an image file of some size is read with or  *)
(* without a crop, as tryReadImage does, and as the yaml and json drivers  *)
(* call it for the file at DEFAULT_AVATAR_PATH.                            *)
(***************************************************************************)
MaxSide == 3        \* largest width or height of an image file

AVATAR_WIDTH == 2
AVATAR_HEIGHT == 3

Sides == 1..MaxSide
Sizes == Sides \X Sides

\* the crop argument: undefined, or a rectangle with the resize flag
NoCrop == [given |-> FALSE, width |-> 0, height |-> 0, want_resize |-> FALSE]
Crops ==
    {NoCrop} \cup
    { [given |-> TRUE, width |-> w, height |-> h, want_resize |-> r] :
        w \in 1..2, h \in 1..2, r \in BOOLEAN }

Smaller(a, b) == IF a < b THEN a ELSE b

\* the dimensions of the image tryReadImage returns for a file of this size
tryReadImage(size, crop) ==
    LET cropped == IF crop.given
                   THEN << Smaller(crop.width, size[1]), Smaller(crop.height, size[2]) >>
                   ELSE size
    IN  IF crop.given /\ crop.want_resize
        THEN << AVATAR_WIDTH, AVATAR_HEIGHT >>
        ELSE cropped

InitAvatar ==
    /\ san = Off
    /\ codec = Off
    /\ now = 0
    /\ store = EmptyStore
    /\ jobs = [j \in Jobs |-> Gone]
    /\ listing = NoListing
    /\ reply = NoReply
    /\ avatar \in {[pc |-> "input", size |-> s, crop |-> c, out |-> <<0, 0>>] :
                      s \in Sizes, c \in Crops}
    /\ route = Off
    /\ invites = Off
    /\ tracker = Off
    /\ forum = Off

\* tryReadImage(filePath, crop)
ReadImage ==
    /\ avatar.pc = "input"
    /\ avatar' = [avatar EXCEPT !.pc = "read",
                                !.out = tryReadImage(avatar.size, avatar.crop)]
    /\ UNCHANGED <<san, codec, now, store, jobs, listing, reply, route, invites, tracker, forum>>

\* writeCharacterData(DEFAULT_AVATAR_PATH, char, pngName) of the yaml and
\* json drivers: crop is left undefined
ImportImage ==
    /\ avatar.pc = "input"
    /\ avatar' = [avatar EXCEPT !.pc = "imported",
                                !.out = tryReadImage(avatar.size, NoCrop)]
    /\ UNCHANGED <<san, codec, now, store, jobs, listing, reply, route, invites, tracker, forum>>

NextAvatar ==
    \/ ReadImage
    \/ ImportImage

SpecAvatar == InitAvatar /\ [][NextAvatar]_vars

(***************************************************************************)
(* The routes that build a file path from a value of the request.  A path  *)
(* is the sequence of its segments.                                        *)
(***************************************************************************)
\* PUBLIC_CHARACTERS_DIR = path.join(DATA_ROOT, 'public_characters')
PUBLIC_CHARACTERS_DIR == << <<100>>, <<112>> >>

Slash == 47
Dot == 46

\* the segments of a string between its slashes
RECURSIVE SplitPath(_, _, _)
SplitPath(s, i, seg) ==
    IF i > Len(s) THEN << seg >>
    ELSE IF s[i] = Slash THEN << seg >> \o SplitPath(s, i + 1, <<>>)
    ELSE SplitPath(s, i + 1, Append(seg, s[i]))

\* path.normalize on the segments: "" and "." are dropped, ".." goes up
RECURSIVE Normalize(_, _)
Normalize(base, segs) ==
    IF segs = <<>> THEN base
    ELSE LET seg == Head(segs)
             next == IF seg = <<>> \/ seg = <<Dot>> THEN base
                     ELSE IF seg = <<Dot, Dot>>
                     THEN (IF base = <<>> THEN base ELSE SubSeq(base, 1, Len(base) - 1))
                     ELSE Append(base, seg)
         IN  Normalize(next, Tail(segs))

\* path.join(dir, name)
PathJoin(dir, name) == Normalize(dir, SplitPath(name, 1, <<>>))

PathAlphabet == {Dot, Slash, 65}

NoPath == << <<0>> >>

InitRoute ==
    /\ san = Off
    /\ codec = Off
    /\ now = 0
    /\ store = EmptyStore
    /\ jobs = [j \in Jobs |-> Gone]
    /\ listing = NoListing
    /\ reply = NoReply
    /\ avatar = Off
    /\ route \in {[pc |-> "input", name |-> n, status |-> 0, path |-> NoPath] :
                     n \in SeqsUpTo(PathAlphabet, MaxLen)}
    /\ invites = Off
    /\ tracker = Off
    /\ forum = Off

\* the check of character_name and the path of POST /get and POST /import
CharacterPath(character_name) ==
    IF Falsy(character_name) THEN [status |-> 400, path |-> NoPath]
    ELSE [status |-> 0, path |-> PathJoin(PUBLIC_CHARACTERS_DIR, character_name \o DotPng)]

\* the check of filename and the path of GET /avatar/:filename
AvatarPath(filename) ==
    IF Falsy(filename) \/ Falsy(sanitize(filename))
    THEN [status |-> 400, path |-> NoPath]
    ELSE [status |-> 0, path |-> PathJoin(PUBLIC_CHARACTERS_DIR, filename)]

\* POST /get up to fs.existsSync(characterPath)
GetPath ==
    /\ route.pc = "input"
    /\ route' = [route EXCEPT !.pc = "get",
                              !.status = CharacterPath(route.name).status,
                              !.path = CharacterPath(route.name).path]
    /\ UNCHANGED <<san, codec, now, store, jobs, listing, reply, avatar, invites, tracker, forum>>

\* POST /import up to fs.existsSync(sourcePath)
ImportPath ==
    /\ route.pc = "input"
    /\ route' = [route EXCEPT !.pc = "import",
                              !.status = CharacterPath(route.name).status,
                              !.path = CharacterPath(route.name).path]
    /\ UNCHANGED <<san, codec, now, store, jobs, listing, reply, avatar, invites, tracker, forum>>

\* GET /avatar/:filename up to fs.existsSync(avatarPath)
ServeAvatarPath ==
    /\ route.pc = "input"
    /\ route' = [route EXCEPT !.pc = "avatar",
                              !.status = AvatarPath(route.name).status,
                              !.path = AvatarPath(route.name).path]
    /\ UNCHANGED <<san, codec, now, store, jobs, listing, reply, avatar, invites, tracker, forum>>

NextRoute ==
    \/ GetPath
    \/ ImportPath
    \/ ServeAvatarPath

SpecRoute == InitRoute /\ [][NextRoute]_vars

(***************************************************************************)
(* invitation-codes.js with ENABLE_INVITATION_CODES on: concurrent calls   *)
(* of useInvitationCode and deleteInvitationCode for one code.  A call     *)
(* gives way to the others at each await of the storage.                   *)
(***************************************************************************)
MaxCalls == 3       \* calls in flight for the code

Calls == 1..MaxCalls

Handles == { Alice.handle, Bob.handle }

\* storage.getItem(key) for a key that is not stored
NoItem == [stored |-> FALSE, used |-> FALSE, usedBy |-> <<>>]

\* the invitation createInvitationCode stores
FreshInvitation == [stored |-> TRUE, used |-> FALSE, usedBy |-> <<>>]

IdleCall == [pc |-> "idle", kind |-> "", usedBy |-> <<>>, invitation |-> NoItem,
             result |-> FALSE]

InitInvite ==
    /\ san = Off
    /\ codec = Off
    /\ now = 0
    /\ store = EmptyStore
    /\ jobs = [j \in Jobs |-> Gone]
    /\ listing = NoListing
    /\ reply = NoReply
    /\ avatar = Off
    /\ route = Off
    /\ invites = [item |-> FreshInvitation, calls |-> [c \in Calls |-> IdleCall]]
    /\ tracker = Off
    /\ forum = Off

\* validateInvitationCode(code) once storage.getItem has answered
validateInvitationCode(invitation) ==
    IF ~invitation.stored THEN [valid |-> FALSE, invitation |-> NoItem]
    ELSE IF invitation.used THEN [valid |-> FALSE, invitation |-> NoItem]
    ELSE [valid |-> TRUE, invitation |-> invitation]

\* useInvitationCode(code, usedBy) is called and awaits storage.getItem
UseCall(c) ==
    /\ invites.calls[c].pc = "idle"
    /\ \E usedBy \in Handles :
        invites' = [invites EXCEPT !.calls[c] =
                       [IdleCall EXCEPT !.pc = "getItem", !.kind = "use",
                                        !.usedBy = usedBy]]
    /\ UNCHANGED <<san, codec, now, store, jobs, listing, reply, avatar, route, tracker, forum>>

\* the getItem of a use answers: the call returns false or goes on to mark
\* its copy of the invitation and to call storage.setItem
UseValidated(c) ==
    /\ invites.calls[c].pc = "getItem"
    /\ invites.calls[c].kind = "use"
    /\ LET validation == validateInvitationCode(invites.item)
       IN  invites' = [invites EXCEPT !.calls[c] =
               IF ~validation.valid
               THEN [@ EXCEPT !.pc = "done", !.result = FALSE]
               ELSE [@ EXCEPT !.pc = "setItem",
                              !.invitation = [validation.invitation EXCEPT
                                                 !.used = TRUE,
                                                 !.usedBy = invites.calls[c].usedBy]]]
    /\ UNCHANGED <<san, codec, now, store, jobs, listing, reply, avatar, route, tracker, forum>>

\* the setItem of a use writes the marked invitation; the call returns true
UseStored(c) ==
    /\ invites.calls[c].pc = "setItem"
    /\ invites' = [invites EXCEPT !.item = invites.calls[c].invitation,
                                  !.calls[c].pc = "done",
                                  !.calls[c].result = TRUE]
    /\ UNCHANGED <<san, codec, now, store, jobs, listing, reply, avatar, route, tracker, forum>>

\* deleteInvitationCode(code) is called and awaits storage.getItem
DeleteCall(c) ==
    /\ invites.calls[c].pc = "idle"
    /\ invites' = [invites EXCEPT !.calls[c] =
                      [IdleCall EXCEPT !.pc = "getItem", !.kind = "delete"]]
    /\ UNCHANGED <<san, codec, now, store, jobs, listing, reply, avatar, route, tracker, forum>>

\* the getItem of a delete answers
DeleteFound(c) ==
    /\ invites.calls[c].pc = "getItem"
    /\ invites.calls[c].kind = "delete"
    /\ invites' = [invites EXCEPT !.calls[c] =
                      IF ~invites.item.stored
                      THEN [@ EXCEPT !.pc = "done", !.result = FALSE]
                      ELSE [@ EXCEPT !.pc = "removeItem"]]
    /\ UNCHANGED <<san, codec, now, store, jobs, listing, reply, avatar, route, tracker, forum>>

\* storage.removeItem(key); the call returns true
DeleteRemoved(c) ==
    /\ invites.calls[c].pc = "removeItem"
    /\ invites' = [invites EXCEPT !.item = NoItem,
                                  !.calls[c].pc = "done",
                                  !.calls[c].result = TRUE]
    /\ UNCHANGED <<san, codec, now, store, jobs, listing, reply, avatar, route, tracker, forum>>

NextInvite ==
    \E c \in Calls :
        \/ UseCall(c)
        \/ UseValidated(c)
        \/ UseStored(c)
        \/ DeleteCall(c)
        \/ DeleteFound(c)
        \/ DeleteRemoved(c)

SpecInvite == InitInvite /\ [][NextInvite]_vars

(***************************************************************************)
(* chatTrackerMiddleware for one request.  A path is the sequence of its   *)
(* segments; the body is reduced to the number of messages it carries      *)
(* that can be recorded.                                                   *)
(***************************************************************************)
MaxMessages == 2    \* recordable messages in a request body

chatEndpoints ==
    { <<"api", "chats", "save">>,
      <<"api", "chats", "group", "save">>,
      <<"api", "backends", "chat-completions", "generate">>,
      <<"api", "backends", "text-completions", "generate">>,
      <<"api", "generate">>,
      <<"api", "openai", "generate">> }

\* paths of other routes of the server
OtherPaths ==
    { <<"api", "sd", "generate">>,
      <<"api", "novelai", "generate-image">>,
      <<"api", "settings", "save">>,
      <<"api", "characters", "all">> }

RequestPaths == chatEndpoints \cup OtherPaths

\* the segments that begin with the word
SegmentsFrom(word) ==
    IF word = "generate" THEN {"generate", "generate-image"}
    ELSE IF word = "save" THEN {"save"}
    ELSE {word}

\* request.path.includes('/' + word)
PathIncludes(path, word) == \E i \in 1..Len(path) : path[i] \in SegmentsFrom(word)

isChatEndpoint(path) ==
    \E endpoint \in chatEndpoints :
        \/ path = endpoint
        \/ PathIncludes(path, "generate")
        \/ PathIncludes(path, "save")

Triggers == {"send", "json", "finish", "close"}

InitTrack ==
    /\ san = Off
    /\ codec = Off
    /\ now = 0
    /\ store = EmptyStore
    /\ jobs = [j \in Jobs |-> Gone]
    /\ listing = NoListing
    /\ reply = NoReply
    /\ avatar = Off
    /\ route = Off
    /\ invites = Off
    /\ tracker \in {[pc |-> "arrived", path |-> p, method |-> m, statusCode |-> c,
                     messages |-> n, hooked |-> FALSE, chatTracked |-> FALSE,
                     fired |-> {}, passes |-> 0, records |-> 0] :
                       p \in RequestPaths, m \in {"POST", "GET"}, c \in {200, 500},
                       n \in 0..MaxMessages}
    /\ forum = Off

\* the number of calls of systemMonitor.recordUserChatActivity one pass of
\* trackChatActivity makes for the request
RecordsOfPass(t) ==
    IF t.path = <<"api", "chats", "save">> /\ t.method = "POST" THEN t.messages
    ELSE IF t.path = <<"api", "chats", "group", "save">> /\ t.method = "POST"
    THEN t.messages
    ELSE IF PathIncludes(t.path, "generate") /\ t.method = "POST"
    THEN (IF t.statusCode = 200 /\ t.messages > 0 THEN 1 ELSE 0)
    ELSE 0

\* trackChatActivity()
trackChatActivity(t) ==
    IF t.chatTracked THEN t
    ELSE [t EXCEPT !.chatTracked = TRUE,
                   !.passes = @ + 1,
                   !.records = @ + RecordsOfPass(t)]

\* the middleware runs for the request and calls next()
Middleware ==
    /\ tracker.pc = "arrived"
    /\ tracker' = [tracker EXCEPT !.pc = "handling",
                                  !.hooked = isChatEndpoint(tracker.path)]
    /\ UNCHANGED <<san, codec, now, store, jobs, listing, reply, avatar, route, invites, forum>>

\* what a call of the trigger runs: the replaced response.json runs
\* trackChatActivity and the original json, which calls response.send
Fire(t, trigger) ==
    LET hit == IF t.hooked THEN trackChatActivity(t) ELSE t
        sent == IF trigger = "json" /\ t.hooked THEN trackChatActivity(hit) ELSE hit
    IN  [sent EXCEPT !.fired = @ \cup {trigger}]

\* the handler calls response.send or response.json, or the response emits
\* 'finish' or 'close'
Trigger ==
    /\ tracker.pc = "handling"
    /\ \E trigger \in Triggers \ tracker.fired :
        tracker' = Fire(tracker, trigger)
    /\ UNCHANGED <<san, codec, now, store, jobs, listing, reply, avatar, route, invites, forum>>

NextTrack ==
    \/ Middleware
    \/ Trigger

SpecTrack == InitTrack /\ [][NextTrack]_vars

(***************************************************************************)
(* The forum endpoint: articles, their comments and replies, each a file   *)
(* of its own in ARTICLES_DIR or COMMENTS_DIR.                             *)
(***************************************************************************)
MaxComments == 3    \* comment files ever created

ArticleIds == {1, 2}

CommentIds == 1..MaxComments

\* parent_id: null
NoParent == 0

\* the articles of the forum and who wrote them
ArticleFiles == [a \in ArticleIds |-> [id |-> a, author |-> IF a = 1 THEN Alice ELSE Bob]]

NoForumReply == [route |-> "", id |-> 0, status |-> 0]

InitForum ==
    /\ san = Off
    /\ codec = Off
    /\ now = 0
    /\ store = EmptyStore
    /\ jobs = [j \in Jobs |-> Gone]
    /\ listing = NoListing
    /\ reply = NoReply
    /\ avatar = Off
    /\ route = Off
    /\ invites = Off
    /\ tracker = Off
    /\ forum = [articles |-> ArticleIds, comments |-> {}, next |-> 1,
                last |-> NoForumReply]

\* getArticleComments(articleId): the main comments of the article, each
\* with the replies whose parent it is
getArticleComments(comments, articleId) ==
    LET allComments == { c \in comments : c.article_id = articleId }
        mainComments == { c \in allComments : c.parent_id = NoParent }
        replies == { c \in allComments : c.parent_id # NoParent }
    IN  { [id |-> c.id, article_id |-> c.article_id, parent_id |-> c.parent_id,
           replies |-> { r \in replies : r.parent_id = c.id }] : c \in mainComments }

\* POST /articles/:articleId/comments with parent_id in the body
AddComment ==
    /\ forum.next <= MaxComments
    /\ \E articleId \in ArticleIds, parent_id \in {NoParent} \cup CommentIds :
        IF articleId \notin forum.articles
        THEN forum' = [forum EXCEPT !.last = [route |-> "comment", id |-> articleId,
                                              status |-> 404]]
        ELSE forum' = [forum EXCEPT
                          !.comments = @ \cup {[id |-> forum.next,
                                                article_id |-> articleId,
                                                parent_id |-> parent_id]},
                          !.next = @ + 1,
                          !.last = [route |-> "comment", id |-> articleId,
                                    status |-> 200]]
    /\ UNCHANGED <<san, codec, now, store, jobs, listing, reply, avatar, route,
                   invites, tracker>>

\* DELETE /comments/:commentId by the comment's author or an administrator
DeleteComment ==
    /\ \E commentId \in CommentIds :
        IF \A c \in forum.comments : c.id # commentId
        THEN forum' = [forum EXCEPT !.last = [route |-> "delete_comment",
                                              id |-> commentId, status |-> 404]]
        ELSE forum' = [forum EXCEPT
                          !.comments = { c \in @ : c.id # commentId },
                          !.last = [route |-> "delete_comment", id |-> commentId,
                                    status |-> 200]]
    /\ UNCHANGED <<san, codec, now, store, jobs, listing, reply, avatar, route,
                   invites, tracker>>

\* DELETE /articles/:articleId
DeleteArticle ==
    /\ \E articleId \in ArticleIds, user \in Callers :
        IF articleId \notin forum.articles
        THEN forum' = [forum EXCEPT !.last = [route |-> "delete_article",
                                              id |-> articleId, status |-> 404]]
        ELSE IF ArticleFiles[articleId].author.handle # user.handle /\ ~user.admin
        THEN forum' = [forum EXCEPT !.last = [route |-> "delete_article",
                                              id |-> articleId, status |-> 403]]
        ELSE LET comments == getArticleComments(forum.comments, articleId)
                 unlinked == { c.id : c \in comments }
             IN  forum' = [forum EXCEPT
                              !.articles = @ \ {articleId},
                              !.comments = { c \in @ : c.id \notin unlinked },
                              !.last = [route |-> "delete_article", id |-> articleId,
                                        status |-> 200]]
    /\ UNCHANGED <<san, codec, now, store, jobs, listing, reply, avatar, route,
                   invites, tracker>>

NextForum ==
    \/ AddComment
    \/ DeleteComment
    \/ DeleteArticle

SpecForum == InitForum /\ [][NextForum]_vars

(***************************************************************************)
(* Concurrent uploads under the scheduling of the event loop: a handler    *)
(* that waits for readCharacterData or writeCharacterData is resumed.      *)
(***************************************************************************)
NextLive ==
    \E j \in Jobs :
        \/ Submit(j)
        \/ Reread(j)
        \/ WriteCharacter(j)

SpecLive ==
    /\ Init
    /\ [][NextLive]_vars
    /\ \A j \in Jobs : WF_vars(Reread(j)) /\ WF_vars(WriteCharacter(j))

(***************************************************************************)
(* C21: every upload job that was received comes to its response, and it   *)
(* answers once: a file name with status 200 or an error with status 400,  *)
(* never both and never twice.                                             *)
(***************************************************************************)
OneResponse(j) ==
    /\ jobs[j].responses <= 1
    /\ Done(j)
       => /\ jobs[j].responses = 1
          /\ \/ jobs[j].status = 200 /\ jobs[j].file_name # <<>> /\ jobs[j].error = ""
             \/ jobs[j].status = 400 /\ jobs[j].file_name = <<>> /\ jobs[j].error # ""
    /\ jobs[j].pc \in {"reread", "image"} => jobs[j].responses = 0

C22_FixedAvatarDimensions ==
    avatar.pc = "imported" => avatar.out = << AVATAR_WIDTH, AVATAR_HEIGHT >>

(***************************************************************************)
(* C23: the store write of a job comes after its stages: the record was    *)
(* validated and normalized (stamped with the caller), the image was       *)
(* resolved and the record embedded in it; and a job that ends in failure  *)
(* has not written to the store.                                           *)
(***************************************************************************)
C23_WriteAfterStagesOnly ==
    \A j \in Jobs :
        /\ jobs[j].wrote
           => /\ jobs[j].pending # NoPending
              /\ JSONparse(jobs[j].pending.data).ok
              /\ Get(EmbeddedRecord(j), "uploader_handle") = jobs[j].req.user.handle
              /\ jobs[j].tried # <<>>
        /\ (Done(j) /\ jobs[j].status # 200) => ~jobs[j].wrote

(***************************************************************************)
(* C24: the strategies of the avatar step are tried in order and each at   *)
(* most once, and for a PNG upload the default avatar is used only after   *)
(* the original bytes of the upload were read again.                       *)
(***************************************************************************)
C24_FallbackOrder ==
    \A j \in Jobs :
        LET tried == jobs[j].tried
        IN  /\ \A a, b \in 1..Len(tried) : tried[a] = tried[b] => a = b
            /\ tried # <<>> => tried[1] = "input"
            /\ (IsPngJob(j) /\ \E a \in 1..Len(tried) : tried[a] = "default")
               => tried = <<"input", "original", "default">>

(***************************************************************************)
(* C25: an artifact whose record names an uploader is removed, replaced or *)
(* re-attributed only by a request of an administrator or of the user with *)
(* the recorded uploader handle.                                           *)
(***************************************************************************)
\* user may act on the artifact stored under k
MayChange(st, k, user) ==
    user.admin \/ processCharacter(st, k).uploader_handle = user.handle

C25_OnlyUploaderOrAdminChanges ==
    [][\A k \in DOMAIN store :
          (processCharacter(store, k).decoded /\ Changed(k))
          => \/ Deletes(k) /\ MayChange(store, k, reply'.user)
             \/ \E j \in Jobs : /\ Writes(j)
                                /\ jobs[j].pending.outputFile = k
                                /\ MayChange(store, k, jobs[j].req.user)
      ]_vars

(***************************************************************************)
(* C26: a delete removes the artifact only for an administrator or for the *)
(* user whose handle is the uploader handle stamped in the artifact; an    *)
(* artifact that cannot be decoded or has no uploader handle is removed    *)
(* only for an administrator.                                              *)
(***************************************************************************)
\* the uploader handle stamped in the file under k, Undefined when the file
\* cannot be decoded or its record has none
StampedHandle(st, k) ==
    LET info == processCharacter(st, k)
    IN  IF info.decoded THEN Get(info.record, "uploader_handle") ELSE Undefined

C26_DeleteByUploaderOrAdmin ==
    [][(reply'.route = "delete" /\ reply'.status = 200)
          => LET k == reply'.character_name
             IN  \/ reply'.user.admin
                 \/ /\ ~Falsy(StampedHandle(store, k))
                    /\ StampedHandle(store, k) = reply'.user.handle
      ]_vars

(***************************************************************************)
(* C27: whatever name a request of get, import or avatar carries, the file *)
(* the route looks up is a file directly inside PUBLIC_CHARACTERS_DIR.     *)
(***************************************************************************)
DirectlyInside(dir, path) ==
    /\ Len(path) = Len(dir) + 1
    /\ SubSeq(path, 1, Len(dir)) = dir

C27_StaysInPublicDirectory ==
    (route.pc \in {"get", "import", "avatar"} /\ route.status # 400)
    => DirectlyInside(PUBLIC_CHARACTERS_DIR, route.path)

(***************************************************************************)
(* C28: of the calls of useInvitationCode for one code at most one returns *)
(* true, the stored usedBy is the handle of that call, and a code that a   *)
(* delete has removed is not stored again by a use.                        *)
(***************************************************************************)
SuccessfulUses ==
    { c \in Calls : /\ invites.calls[c].kind = "use"
                    /\ invites.calls[c].pc = "done"
                    /\ invites.calls[c].result }

SuccessfulDeletes ==
    { c \in Calls : /\ invites.calls[c].kind = "delete"
                    /\ invites.calls[c].pc = "done"
                    /\ invites.calls[c].result }

C28_ConsumedAtMostOnce ==
    /\ Cardinality(SuccessfulUses) <= 1
    /\ \A c \in SuccessfulUses :
        invites.item.stored => invites.item.usedBy = invites.calls[c].usedBy
    /\ SuccessfulDeletes # {} => ~invites.item.stored

(***************************************************************************)
(* C29: the activity of a tracked request is recorded by at most one pass  *)
(* of trackChatActivity, whatever triggers have fired, and a request whose *)
(* path is none of the chat endpoints is never recorded.                   *)
(***************************************************************************)
C29_TrackedOnce ==
    /\ tracker.passes <= 1
    /\ tracker.records <= RecordsOfPass(tracker)
    /\ tracker.path \notin chatEndpoints => tracker.records = 0

(***************************************************************************)
(* C30: right after an article was deleted with success no comment file    *)
(* with the article_id of that article is left, whatever comments and      *)
(* replies the article had.                                                *)
(***************************************************************************)
C30_DeleteArticleRemovesComments ==
    (forum.last.route = "delete_article" /\ forum.last.status = 200)
    => \A c \in forum.comments : c.article_id # forum.last.id

====
